---------------------------- MODULE Spec2Model ----------------------------
(***************************************************************************)
(* st_comp_blocks: ComputationalBlock objects persisted through CBStorage  *)
(* over the timeout-guarded SQL handle (src/st_comp_blocks/__init__.py).   *)
(*                                                                         *)
(* Every client owns one ComputationalBlock variable and one CBStorage     *)
(* handle (one connection, one cursor).  A call through SQL.__call__ is    *)
(* split where the source splits it: the caller submits a worker, the      *)
(* worker executes the statements of the query one after the other on the  *)
(* server, and the caller then commits, rolls back, or gives up waiting.   *)
(* The server is a table of rows with one open transaction per connection  *)
(* (autocommit is off, line 29): a transaction sees the committed rows and *)
(* its own pending writes, a row written by an open transaction is locked  *)
(* for the writers of the other connections, and the id sequence is        *)
(* advanced outside any transaction.                                       *)
(***************************************************************************)
EXTENDS Integers, Sequences, FiniteSets, TLC

\* ------------------------------------------------------------------ bounds
\* Ids the sequence may hand out before inserts are cut off.
MaxId == 2
\* A local patch sequence is appended to only while it is shorter than this.
MaxLen == 2
\* Calls begun in a whole run, and timeouts and closes in a whole run.
MaxOps == 4
MaxFaults == 1

Clients == {1, 2}
\* patch_props of the concrete block type (the base class declares none).
Props == {"hist", "log"}
PropOrder == <<"hist", "log">>
Ids == 1..MaxId
\* The types of block in use, and the type a client constructs.
Classes == {"A", "B"}
BlockClass == "A"
\* Python's None for an id.
None == 0

VARIABLES
    db,         \* committed rows of the table: id -> row
    seqval,     \* next value of the table's id sequence
    tx,         \* per connection: pending writes of its open transaction
    obj,        \* per client: its ComputationalBlock
    conn,       \* per handle: "open", "closed" or "none" (self.connection);
                \* "lost" when the server's end is gone and the connection
                \* not yet marked closed; "new" while the handle is not
                \* constructed
    call,       \* per handle: the SQL.__call__ in flight and its worker
    abandoned,  \* per handle: statements left to the worker a timeout abandoned
    result,     \* per client: how its last operation ended
    nops,       \* calls begun so far
    nfaults,    \* timeouts and closes so far
    dirty,      \* per handle: <<row, statement kind>> of what an abandoned worker
                \* wrote in the open transaction
    fn,         \* whether the server has the function check_patch
    agent,      \* the CBUpdate object: its json and binary, and where its
                \* update() stands
    mode        \* the run's deployment: "solo", "duo", "admin", "ro", "agent"
                \* or "nested"

vars == <<db, seqval, tx, obj, conn, call, abandoned, result, nops, nfaults,
          dirty, fn, agent, mode>>

\* ------------------------------------------------------------------- rows
EmptyProps == [p \in Props |-> <<>>]
\* A row: ex whether it exists, the json (cls its __classname__, props, idh,
\* upd its "_update" key with 0 for no such key), the binary, and how often
\* read_date (rd) and update_date (ud) were set since the insert.
NoRow ==
    [ex |-> FALSE, cls |-> "", props |-> EmptyProps, idh |-> <<>>, upd |-> 0,
     bin |-> "", rd |-> 0, ud |-> 0]
Row(cls, props, idh, bin) ==
    [ex |-> TRUE, cls |-> cls, props |-> props, idh |-> idh, upd |-> 0,
     bin |-> bin, rd |-> 0, ud |-> 0]
NoTx == [k \in {} |-> NoRow]

\* What connection c reads for id k: its own pending write, else the committed row.
Visible(c, k) == IF k \in DOMAIN tx[c] THEN tx[c][k] ELSE db[k]
\* A row another open transaction has written is locked against c's writes.
LockedByOther(c, k) == \E d \in Clients \ {c} : k \in DOMAIN tx[d]
Write(t, k, r) == [j \in DOMAIN t \cup {k} |-> IF j = k THEN r ELSE t[j]]
Committed(c) == [k \in Ids |-> IF k \in DOMAIN tx[c] THEN tx[c][k] ELSE db[k]]

\* --------------------------------------------------------------- sequences
IsPrefix(s, t) == Len(s) <= Len(t) /\ SubSeq(t, 1, Len(s)) = s
\* Python's s[n:] and jsonb_path_query_array(s, '$[n to LAST]').
From(s, n) == SubSeq(s, n + 1, Len(s))


\* ------------------------------------------------------ ComputationalBlock
\* __init__: no id, no history, every patch property empty and unsynced.
NewBlock ==
    [cls |-> BlockClass, id |-> None, idh |-> <<>>, props |-> EmptyProps,
     lp |-> [p \in Props |-> 0], loaded |-> FALSE, saved |-> FALSE]

\* get_patch_props_json: the unsynced suffixes, or the whole sequences.
get_patch_props_json(o, updates_only) ==
    [p \in Props |-> IF updates_only THEN From(o.props[p], o.lp[p]) ELSE o.props[p]]

\* _update_last_patches counting one element too many.
update_last_patches_off_by_one(o, names) ==
    [o EXCEPT !.lp = [p \in Props |-> IF p \in names THEN Len(o.props[p]) + 1 ELSE @[p]]]

\* _update_last_patches: the named properties count as synced up to their length.
update_last_patches(o, names) ==
    [o EXCEPT !.lp = [p \in Props |-> IF p \in names THEN Len(o.props[p]) ELSE @[p]]]

\* _set_patch_props(patches, updates_only=True): extend the named sequences.
set_patch_props(o, names, patches) ==
    [o EXCEPT !.props =
        [p \in Props |-> IF p \in names THEN @[p] \o patches[p] ELSE @[p]]]

\* _pre_save clearing the id without archiving it.
pre_save_forgets(o, update) ==
    IF ~update /\ o.id # None
    THEN [o |-> [o EXCEPT !.id = None], id |-> None]
    ELSE [o |-> o, id |-> o.id]

\* _pre_save: a non-destructive save of a saved object archives and clears its id.
\* Gives the object after the call and the id handed to the storage.
pre_save(o, update) ==
    IF ~update /\ o.id # None
    THEN [o |-> [o EXCEPT !.idh = Append(@, o.id), !.id = None], id |-> None]
    ELSE [o |-> o, id |-> o.id]

\* get_json / get_binary of the concrete type: id_history and the whole patch
\* sequences go into the json, the binary payload is b"".
get_binary(o) == ""
get_json(o) == Row(o.cls, get_patch_props_json(o, FALSE), o.idh, get_binary(o))

\* A from_json_binary that never compares the class names.
ClassMismatchIgnored(cls, row, strict) == FALSE

\* from_json_binary raises ValueError when the json's __classname__ is not
\* the loading class and strict is set; without strict it only warns.
ClassMismatch(cls, row, strict) == strict /\ row.cls # cls

\* from_json_binary on a loaded row (load has put block_id into the json):
\* a fresh object of the loading class whose attributes are set from the
\* keys of the json; the "_update" key is no attribute and is ignored.
from_json_binary(cls, row, block_id) ==
    [NewBlock EXCEPT !.cls = cls, !.id = block_id, !.idh = row.idh,
                     !.props = row.props]

\* test_computational_block's comparison for a decoded block n of o: the
\* re-encoded json (its "id" key too) and binary against the first encoding.
SameEncoding(n, o) ==
    /\ get_json(n) = get_json(o)
    /\ n.id = o.id
    /\ get_binary(n) = get_binary(o)

\* ------------------------------------------------------------- statements
\* One SQL statement of a query: t is its kind, k the id of its where clause,
\* p a property, n a length, v a json array, r a row.
\* lps the start positions of a pull.
ZeroLp == [p \in Props |-> 0]
Stmt(t, k, p, n, v, r) ==
    [t |-> t, k |-> k, p |-> p, n |-> n, v |-> v, r |-> r, lps |-> ZeroLp]

\* check_patch raising only when the store is behind the caller.
check_patch_behind(pl, dbpl) == pl > dbpl

\* check_patch(pl, dbpl, key): raises when the two lengths differ.
check_patch(pl, dbpl) == pl # dbpl

\* The properties a push sends: the named ones whose update is not empty.
PushNames(patches, names) ==
    SelectSeq(PropOrder, LAMBDA p : p \in names /\ Len(patches[p]) > 0)

\* push_patch_props appending the first property only.
push_query_first(patches, names, last_patches, block_id) ==
    LET ns == PushNames(patches, names) IN
    [i \in 1..Len(ns) |->
        Stmt("check", block_id, ns[i], last_patches[ns[i]], <<>>, NoRow)]
    \o [i \in 1..(IF Len(ns) > 0 THEN 1 ELSE 0) |->
        Stmt("append", block_id, ns[i], 0, patches[ns[i]], NoRow)]

\* CBStorage.push_patch_props: one check per property, then one append per property.
push_query(patches, names, last_patches, block_id) ==
    LET ns == PushNames(patches, names) IN
    [i \in 1..Len(ns) |->
        Stmt("check", block_id, ns[i], last_patches[ns[i]], <<>>, NoRow)]
    \o [i \in 1..Len(ns) |->
        Stmt("append", block_id, ns[i], 0, patches[ns[i]], NoRow)]

\* CBStorage.pull_patch_props: one select of the suffixes.
pull_query(last_patches, block_id) ==
    << [Stmt("pull", block_id, "hist", 0, <<>>, NoRow) EXCEPT !.lps = last_patches] >>

\* CBStorage.save: an insert without an id, an update of the row with one.
save_query(block_json, block_id) ==
    IF block_id = None
    THEN << Stmt("insert", None, "hist", 0, <<>>, block_json) >>
    ELSE << Stmt("update", block_id, "hist", 0, <<>>, block_json) >>

\* CBStorage.clear_storage: delete every row, restart the id sequence.
clear_query ==
    << Stmt("clear", None, "hist", 0, <<>>, NoRow),
       Stmt("restart", None, "hist", 0, <<>>, NoRow) >>

\* CBStorage.delete_ids of one id.
delete_query(block_id) == << Stmt("delete", block_id, "hist", 0, <<>>, NoRow) >>

\* CBStorage._load: stamp read_date, then select the row.
load_query(block_id) ==
    << Stmt("stamp", block_id, "hist", 0, <<>>, NoRow),
       Stmt("select", block_id, "hist", 0, <<>>, NoRow) >>


\* ----------------------------------------------------- the server's side
\* A statement that writes a row waits while another open transaction holds
\* the row; an insert waits for ever once the model's ids are used up.
IsWrite(s) == s.t \in {"append", "update", "stamp", "delete"}
StmtBlocked(c, s) ==
    \/ IsWrite(s) /\ s.k \in Ids /\ LockedByOther(c, s.k)
    \/ s.t = "clear" /\ \E k \in Ids : LockedByOther(c, k)
    \/ s.t = "insert" /\ seqval > MaxId

\* The select of check_patch calls the function once per row the where finds.
StmtRaises(c, s) ==
    /\ s.t = "check"
    /\ \/ ~fn
       \/ /\ s.k \in Ids
          /\ Visible(c, s.k).ex
          /\ check_patch(s.n, Len(Visible(c, s.k).props[s.p]))

\* What the statement raises: the exception of check_patch, or the server's
\* error for a function that does not exist.
StmtErr(s) == IF s.t = "check" /\ ~fn THEN "error" ELSE "violation"

\* The pending writes of c's transaction after statement s.
StmtTx(c, s) ==
    LET row == IF s.k \in Ids THEN Visible(c, s.k) ELSE NoRow IN
    CASE s.t = "append" /\ row.ex ->
            Write(tx[c], s.k, [row EXCEPT !.props[s.p] = @ \o s.v])
      [] s.t = "update" /\ row.ex ->
            Write(tx[c], s.k, [s.r EXCEPT !.rd = row.rd, !.ud = row.ud + 1])
      [] s.t = "stamp" /\ row.ex -> Write(tx[c], s.k, [row EXCEPT !.rd = @ + 1])
      [] s.t = "delete" /\ row.ex -> Write(tx[c], s.k, NoRow)
      [] s.t = "clear" ->
            [k \in DOMAIN tx[c] \cup {j \in Ids : db[j].ex} |-> NoRow]
      [] s.t = "insert" -> Write(tx[c], seqval, s.r)
      [] OTHER -> tx[c]

\* The rows statement s writes.
StmtWrites(c, s) ==
    {k \in DOMAIN StmtTx(c, s) : k \notin DOMAIN tx[c] \/ StmtTx(c, s)[k] # tx[c][k]}

\* nextval is not undone by a rollback.
StmtSeq(s) ==
    CASE s.t = "insert" -> seqval + 1
      [] s.t = "restart" -> 1
      [] OTHER -> seqval

\* A pull that selects the whole sequences.
StmtRowWhole(c, s) ==
    LET row == IF s.k \in Ids THEN Visible(c, s.k) ELSE NoRow IN
    CASE s.t \in {"select", "pull"} -> row
      [] OTHER -> NoRow

\* What the cursor holds after s: the row of a select (the suffixes, for a
\* pull), the id an insert returns.
StmtRow(c, s) ==
    LET row == IF s.k \in Ids THEN Visible(c, s.k) ELSE NoRow IN
    CASE s.t = "select" -> row
      [] s.t = "pull" ->
            [row EXCEPT !.props = [p \in Props |-> From(row.props[p], s.lps[p])]]
      [] OTHER -> NoRow
StmtId(s) == IF s.t = "insert" THEN seqval ELSE s.k


\* ------------------------------------------------------------ SQL.__call__
NoSeen == [p \in Props |-> -1]
\* What the caller keeps for the call's return: the class and the strict
\* flag of a load.
NoReq == [cls |-> "", strict |-> TRUE]
Req(cls, strict) == [cls |-> cls, strict |-> strict]
\* No call in flight.
Idle ==
    [op |-> "none", stmts |-> <<>>, st |-> "run", err |-> "none", k |-> None,
     names |-> {}, row |-> NoRow, rid |-> None, seen |-> NoSeen, app |-> {},
     arch |-> None, req |-> NoReq, reconn |-> FALSE]

\* The worker submitted for a query; an empty query makes execute raise at once.
Submitted(op, stmts, k, names, arch, req, reconn) ==
    [Idle EXCEPT !.op = op, !.stmts = stmts, !.k = k, !.names = names,
                 !.arch = arch, !.req = req, !.reconn = reconn,
                 !.st = IF stmts = <<>> THEN "err" ELSE "run",
                 !.err = IF stmts = <<>> THEN "error" ELSE "none"]

\* How the worker of SQL.connect ends for the caller.
ConnectOutcomes == {"ok", "timeout", "error"}

\* CBStorage.mode of the handle: "rw", or "ro" for the read-only handle.
HandleMode(c) == IF mode = "ro" /\ c = 1 THEN "ro" ELSE "rw"

\* _get_on_connect: a read-write handle creates check_patch when it connects.
OnConnect(c, out) == fn \/ (out = "ok" /\ HandleMode(c) = "rw")

\* SQL.connect: the connection and cursor of the worker, or None on a failure.
connect(c, out) ==
    /\ conn' = [conn EXCEPT ![c] = IF out = "ok" THEN "open" ELSE "none"]
    /\ fn' = OnConnect(c, out)
    /\ tx' = [tx EXCEPT ![c] = NoTx]
    /\ dirty' = [dirty EXCEPT ![c] = {}]
    /\ abandoned' = [abandoned EXCEPT ![c] = <<>>]

\* A __call__ that never looks at connection.closed.
NeedsConnectNever(c) == FALSE

\* Whether __call__ reconnects before it submits its worker.
NeedsConnect(c) == conn[c] = "closed"

\* cursor.execute on a connection whose server end is gone raises, and the
\* driver marks the connection closed.
ExecuteLost(c) == conn[c] = "lost"
Detected(st) == IF st = "lost" THEN "closed" ELSE st

\* SQL.__call__ up to the submit: reconnect when the connection is closed.
SqlCall(c, op, stmts, k, names, arch, req) ==
    /\ UNCHANGED <<db, seqval, nfaults>>
    /\ \/ /\ conn[c] = "none"
          /\ result' = [result EXCEPT ![c] = "error"]
          /\ UNCHANGED <<conn, tx, dirty, abandoned, call, fn>>
       \/ /\ conn[c] # "none"
          /\ NeedsConnect(c)
          /\ \E out \in ConnectOutcomes :
                /\ connect(c, out)
                /\ IF out = "ok"
                   THEN /\ call' = [call EXCEPT ![c] =
                                      Submitted(op, stmts, k, names, arch, req, TRUE)]
                        /\ UNCHANGED result
                   ELSE /\ result' = [result EXCEPT ![c] = out]
                        /\ UNCHANGED call
       \/ /\ conn[c] # "none"
          /\ ~NeedsConnect(c)
          /\ call' = [call EXCEPT ![c] = Submitted(op, stmts, k, names, arch, req, FALSE)]
          /\ UNCHANGED <<conn, tx, dirty, abandoned, result, fn>>

\* The worker executes the next statement of its query (db_request).
WorkerStep(c) ==
    /\ call[c].op # "none"
    /\ call[c].st = "run"
    /\ call[c].stmts # <<>>
    /\ LET s == Head(call[c].stmts) IN
       /\ ExecuteLost(c) \/ ~StmtBlocked(c, s)
       /\ IF ExecuteLost(c)
          THEN /\ call' = [call EXCEPT ![c].st = "err", ![c].err = "lost"]
               /\ UNCHANGED <<tx, seqval>>
          ELSE IF StmtRaises(c, s)
          THEN /\ call' = [call EXCEPT ![c].st = "err", ![c].err = StmtErr(s),
                                       ![c].seen[s.p] =
                                          IF fn THEN Len(Visible(c, s.k).props[s.p]) ELSE @]
               /\ UNCHANGED <<tx, seqval>>
          ELSE /\ tx' = [tx EXCEPT ![c] = StmtTx(c, s)]
               /\ seqval' = StmtSeq(s)
               /\ call' = [call EXCEPT
                    ![c].stmts = Tail(@),
                    ![c].row = StmtRow(c, s),
                    ![c].rid = StmtId(s),
                    ![c].seen = IF s.t = "check" /\ Visible(c, s.k).ex
                                THEN [@ EXCEPT ![s.p] = Len(Visible(c, s.k).props[s.p])]
                                ELSE @,
                    ![c].app = IF s.t = "append" /\ Visible(c, s.k).ex
                               THEN @ \cup {s.p} ELSE @]
    /\ UNCHANGED <<db, obj, conn, abandoned, result, nops, nfaults, dirty, fn>>

\* The commit after the worker's last statement finds the server's end gone.
CommitLost(c) ==
    /\ call[c].st = "run"
    /\ call[c].stmts = <<>>
    /\ ExecuteLost(c)

\* The caller's worker raised: roll back and raise (lines 96-98); or the
\* commit raised (line 102).
Fail(c) ==
    /\ call[c].op # "none"
    /\ call[c].st = "err" \/ CommitLost(c)
    /\ tx' = [tx EXCEPT ![c] = NoTx]
    /\ dirty' = [dirty EXCEPT ![c] = {}]
    /\ call' = [call EXCEPT ![c] = Idle]
    /\ result' = [result EXCEPT ![c] = IF call[c].st = "err" THEN call[c].err ELSE "lost"]
    /\ conn' = [conn EXCEPT ![c] = Detected(@)]
    /\ UNCHANGED <<db, seqval, obj, abandoned, nops, nfaults, fn>>

\* A guard that ends the worker it stops waiting for.
AbandonKills(stmts, cancelled) == <<>>

\* What becomes of the worker the caller stops waiting for: it goes on with
\* the rest of its query, or the server's statement_timeout has ended it.
Abandon(stmts, cancelled) == IF cancelled THEN <<>> ELSE stmts

\* The worker has not finished within the timeout: roll back and raise
\* TimeoutError without joining the worker (lines 93-95, 99-100).
Timeout(c) ==
    /\ call[c].op # "none"
    /\ call[c].st = "run"
    /\ call[c].stmts # <<>>
    /\ abandoned[c] = <<>>
    /\ nfaults < MaxFaults
    /\ nfaults' = nfaults + 1
    /\ \E cancelled \in BOOLEAN :
          abandoned' = [abandoned EXCEPT ![c] = Abandon(call[c].stmts, cancelled)]
    /\ tx' = [tx EXCEPT ![c] = NoTx]
    /\ dirty' = [dirty EXCEPT ![c] = {}]
    /\ call' = [call EXCEPT ![c] = Idle]
    /\ result' = [result EXCEPT ![c] = "timeout"]
    /\ UNCHANGED <<db, seqval, obj, conn, nops, fn>>

\* The abandoned worker executes its next statement on the handle's
\* connection, in whatever transaction is open there; an error ends it
\* unseen.
AbandonedStep(c) ==
    /\ abandoned[c] # <<>>
    /\ LET s == Head(abandoned[c]) IN
       /\ ExecuteLost(c) \/ ~StmtBlocked(c, s)
       /\ IF ExecuteLost(c) \/ StmtRaises(c, s)
          THEN /\ abandoned' = [abandoned EXCEPT ![c] = <<>>]
               /\ UNCHANGED <<tx, seqval, dirty>>
          ELSE /\ tx' = [tx EXCEPT ![c] = StmtTx(c, s)]
               /\ seqval' = StmtSeq(s)
               /\ dirty' = [dirty EXCEPT ![c] =
                              @ \cup {<<k, s.t>> : k \in StmtWrites(c, s)}]
               /\ abandoned' = [abandoned EXCEPT ![c] = Tail(@)]
    /\ UNCHANGED <<db, obj, conn, call, result, nops, nfaults, fn>>

\* The server's statement_timeout ends the abandoned worker's statement.
AbandonedCancel(c) ==
    /\ abandoned[c] # <<>>
    /\ abandoned' = [abandoned EXCEPT ![c] = <<>>]
    /\ UNCHANGED <<db, seqval, tx, obj, conn, call, result, nops, nfaults, dirty, fn>>

\* CBStorage.close / SQL.close between two calls: the server drops the
\* session and what it had not committed.
Close(c) ==
    /\ call[c].op = "none"
    /\ conn[c] = "open"
    /\ nfaults < MaxFaults
    /\ nfaults' = nfaults + 1
    /\ conn' = [conn EXCEPT ![c] = "closed"]
    /\ tx' = [tx EXCEPT ![c] = NoTx]
    /\ dirty' = [dirty EXCEPT ![c] = {}]
    /\ abandoned' = [abandoned EXCEPT ![c] = <<>>]
    /\ UNCHANGED <<db, seqval, obj, call, result, nops, fn>>

\* The server's end of the connection goes away, between two calls or under
\* a call in flight: the session and what it had not committed are gone, the
\* client's connection object does not know yet.
Drop(c) ==
    /\ conn[c] = "open"
    /\ nfaults < MaxFaults
    /\ nfaults' = nfaults + 1
    /\ conn' = [conn EXCEPT ![c] = "lost"]
    /\ tx' = [tx EXCEPT ![c] = NoTx]
    /\ dirty' = [dirty EXCEPT ![c] = {}]
    /\ abandoned' = [abandoned EXCEPT ![c] = <<>>]
    /\ UNCHANGED <<db, seqval, obj, call, result, nops, fn>>


\* ---------------------------------------------- ComputationalBlock's calls
NameSets == (SUBSET Props) \ {{}}

\* The client is between two calls and may begin another.
Begin(c) ==
    /\ call[c].op = "none"
    /\ nops < MaxOps
    /\ nops' = nops + 1

\* The caller appends an element of its own to a local patch sequence.
AppendLocal(c, p) ==
    /\ call[c].op = "none"
    /\ Len(obj[c].props[p]) < MaxLen
    /\ obj' = [obj EXCEPT ![c].props[p] = Append(@, c)]
    /\ UNCHANGED <<db, seqval, tx, conn, call, abandoned, result, nops, nfaults, dirty, fn>>

\* ComputationalBlock.save up to the submit of CBStorage.save's query.
Save(c, update) ==
    /\ Begin(c)
    /\ LET ps == pre_save(obj[c], update)
           o2 == update_last_patches(ps.o, Props)
           arch == IF ps.id = obj[c].id THEN None ELSE obj[c].id
       IN /\ obj' = [obj EXCEPT ![c] = o2]
          /\ SqlCall(c, "save", save_query(get_json(o2), ps.id), ps.id, Props, arch, NoReq)

\* ComputationalBlock.load up to the submit of CBStorage.load's query.
Load(c, k, cls, strict) ==
    /\ Begin(c)
    /\ UNCHANGED obj
    /\ SqlCall(c, "load", load_query(k), k, Props, None, Req(cls, strict))

\* ComputationalBlock.push_patch_props up to the submit; formatting the
\* query with no id raises TypeError before the handle is used.
Push(c, names) ==
    /\ Begin(c)
    /\ UNCHANGED obj
    /\ LET pp == get_patch_props_json(obj[c], TRUE)
           q == push_query(pp, names, obj[c].lp, obj[c].id)
       IN IF obj[c].id = None /\ q # <<>>
          THEN /\ result' = [result EXCEPT ![c] = "typeerror"]
               /\ UNCHANGED <<db, seqval, tx, conn, call, abandoned, nfaults, dirty, fn>>
          ELSE SqlCall(c, "push", q, obj[c].id, names, None, NoReq)

\* ComputationalBlock.pull_patch_props up to the submit.
Pull(c, names) ==
    /\ Begin(c)
    /\ UNCHANGED obj
    /\ IF obj[c].id = None
       THEN /\ result' = [result EXCEPT ![c] = "typeerror"]
            /\ UNCHANGED <<db, seqval, tx, conn, call, abandoned, nfaults, dirty, fn>>
       ELSE SqlCall(c, "pull", pull_query(obj[c].lp, obj[c].id), obj[c].id, names, None, NoReq)

\* CBStorage.clear_storage and CBStorage.delete_ids up to the submit.
ClearStorage(c) ==
    /\ Begin(c)
    /\ UNCHANGED obj
    /\ SqlCall(c, "clear", clear_query, None, {}, None, NoReq)

DeleteIds(c, k) ==
    /\ Begin(c)
    /\ UNCHANGED obj
    /\ SqlCall(c, "delete", delete_query(k), k, {}, None, NoReq)

\* test_computational_block of a block without nested blocks: encode,
\* decode into a fresh object of the class, encode again and compare.
TestBlock(c) ==
    /\ call[c].op = "none"
    /\ LET o == obj[c]
           n == from_json_binary(o.cls, get_json(o), o.id)
       IN result' = [result EXCEPT ![c] =
              CASE ClassMismatch(o.cls, get_json(o), TRUE) -> "mismatch"
                [] SameEncoding(n, o) -> "true"
                [] OTHER -> "false"]
    /\ UNCHANGED <<db, seqval, tx, obj, conn, call, abandoned, nops, nfaults, dirty, fn>>

\* test_computational_block of a parent whose one nested block (cb_props)
\* is the client's block, up to the submit: the parent's json holds the
\* nested block's json, and from_json_binary (full) replaces it by
\* klass.load(storage, id), where int(None) raises TypeError.
TestNested(c) ==
    /\ Begin(c)
    /\ UNCHANGED obj
    /\ IF obj[c].id = None
       THEN /\ result' = [result EXCEPT ![c] = "typeerror"]
            /\ UNCHANGED <<db, seqval, tx, conn, call, abandoned, nfaults, dirty, fn>>
       ELSE SqlCall(c, "test", load_query(obj[c].id), obj[c].id, Props, None,
                    Req(obj[c].cls, TRUE))

\* CBStorage.__init__ of a handle: SQL.__init__ connects.
Construct(c) ==
    /\ conn[c] = "new"
    /\ connect(c, "ok")
    /\ UNCHANGED <<db, seqval, obj, call, result, nops, nfaults>>

\* What the caller makes of a call that returned: the object after it.
Returned(o, cl) ==
    CASE cl.op = "save" -> [o EXCEPT !.id = cl.rid, !.saved = TRUE]
      [] cl.op = "load" /\ cl.row.ex /\ ~ClassMismatch(cl.req.cls, cl.row, cl.req.strict) ->
            update_last_patches(
                [from_json_binary(cl.req.cls, cl.row, cl.k) EXCEPT !.loaded = TRUE],
                Props)
      [] cl.op = "push" -> update_last_patches(o, cl.names)
      [] cl.op = "pull" /\ cl.row.ex ->
            update_last_patches(set_patch_props(o, cl.names, cl.row.props), cl.names)
      [] OTHER -> o

\* A read that does not look at rowcount.
NotFoundNever(cl) == FALSE

\* A select that found no row: ValueError("No such block_id").
NotFound(cl) == cl.op \in {"load", "pull", "uload", "test"} /\ ~cl.row.ex

\* How a call that returned from the storage ends for the caller; the test
\* of a parent compares its nested block as loaded with the one it holds.
Outcome(o, cl) ==
    CASE NotFound(cl) -> "notfound"
      [] cl.op = "load" /\ ClassMismatch(cl.req.cls, cl.row, cl.req.strict) -> "mismatch"
      [] cl.op = "test" ->
            IF SameEncoding(from_json_binary(cl.req.cls, cl.row, cl.k), o)
            THEN "true" ELSE "false"
      [] OTHER -> "ok"

\* The worker finished its query: commit, fetch, and the rest of the
\* operation on the object (lines 102-106 and the callers' tails).
Return(c) ==
    /\ call[c].op # "none"
    /\ call[c].st = "run"
    /\ call[c].stmts = <<>>
    /\ ~ExecuteLost(c)
    /\ db' = Committed(c)
    /\ tx' = [tx EXCEPT ![c] = NoTx]
    /\ dirty' = [dirty EXCEPT ![c] = {}]
    /\ obj' = [obj EXCEPT ![c] = Returned(@, call[c])]
    /\ result' = [result EXCEPT ![c] = Outcome(obj[c], call[c])]
    /\ call' = [call EXCEPT ![c] = Idle]
    /\ UNCHANGED <<seqval, conn, abandoned, nops, nfaults, fn>>

\* The steps of a call in flight, whoever began it.
Progress(c) ==
    \/ WorkerStep(c)
    \/ Return(c)
    \/ Fail(c)

\* ----------------------------------------------------------------- CBUpdate
\* The handle the agent works on and the record it is constructed for.
AgentHandle == 2
AgentBlock == 1

\* CBUpdate.__init__: json and binary are None (a row that does not exist).
NewAgent == [json |-> NoRow, pc |-> "idle", save |-> FALSE]

\* What CBUpdate.load keeps of the row: its json and its binary.
Json(row) == [row EXCEPT !.rd = 0, !.ud = 0]

\* make_update of the concrete agent: a pure function of the json, here the
\* number of elements the record holds; 0 is the empty update {}.
make_update(j) == Len(j.props["hist"]) + Len(j.props["log"])

\* An update() that stores under the reserved key and drops the sequences.
AugmentDropsProps(j, u) == [j EXCEPT !.upd = u, !.props = EmptyProps]

\* self.json["_update"] = self.make_update()
Augment(j, u) == [j EXCEPT !.upd = u]

\* An update() that saves whatever the save flag says.
AgentSavesAlways(save, u) == u # 0

\* update() calls self.save() for a non-empty update when save is set.
AgentSaves(save, u) == u # 0 /\ save

\* A new CBUpdate object for the same record replaces the one in use.
AgentNew ==
    /\ agent.pc = "idle"
    /\ agent.json.ex
    /\ agent' = NewAgent
    /\ UNCHANGED <<db, seqval, tx, obj, conn, call, abandoned, result, nops,
                   nfaults, dirty, fn>>

\* CBUpdate.update up to make_update: the first use loads json and binary.
AgentUpdate(save) ==
    /\ agent.pc = "idle"
    /\ Begin(AgentHandle)
    /\ UNCHANGED obj
    /\ IF ~agent.json.ex
       THEN /\ SqlCall(AgentHandle, "uload", load_query(AgentBlock), AgentBlock,
                       {}, None, NoReq)
            /\ agent' = [agent EXCEPT !.save = save,
                            !.pc = IF call'[AgentHandle].op = "uload"
                                   THEN "load" ELSE "idle"]
       ELSE /\ agent' = [agent EXCEPT !.save = save, !.pc = "ready"]
            /\ UNCHANGED <<db, seqval, tx, conn, call, abandoned, result,
                           nfaults, dirty, fn>>

\* The agent after a step of the call it has in flight: a load that returned
\* gives json and binary, a call that raised ends update().
AgentAfter(before, after, res) ==
    CASE after.op # "none" -> agent
      [] before.op = "uload" /\ res = "ok" ->
            [agent EXCEPT !.json = Json(before.row), !.pc = "ready"]
      [] OTHER -> [agent EXCEPT !.pc = "idle"]

AgentProgress ==
    /\ Progress(AgentHandle)
    /\ agent' = AgentAfter(call[AgentHandle], call'[AgentHandle], result'[AgentHandle])

\* update() from make_update on: nothing for an empty update, else the
\* reserved key is set and, when asked, the whole record is saved.
AgentApply ==
    /\ agent.pc = "ready"
    /\ call[AgentHandle].op = "none"
    /\ UNCHANGED <<obj, nops>>
    /\ LET u == make_update(agent.json)
           j == Augment(agent.json, u)
       IN IF u = 0
          THEN /\ result' = [result EXCEPT ![AgentHandle] = "noupdate"]
               /\ agent' = [agent EXCEPT !.pc = "idle"]
               /\ UNCHANGED <<db, seqval, tx, conn, call, abandoned, nfaults, dirty, fn>>
          ELSE IF AgentSaves(agent.save, u)
               THEN /\ SqlCall(AgentHandle, "usave", save_query(j, AgentBlock),
                               AgentBlock, {}, None, NoReq)
                    /\ agent' = [agent EXCEPT !.json = j,
                                    !.pc = IF call'[AgentHandle].op = "usave"
                                           THEN "save" ELSE "idle"]
               ELSE /\ result' = [result EXCEPT ![AgentHandle] = "ok"]
                    /\ agent' = [agent EXCEPT !.json = j, !.pc = "idle"]
                    /\ UNCHANGED <<db, seqval, tx, conn, call, abandoned, nfaults,
                                   dirty, fn>>

\* ------------------------------------------------------------ specification
Init ==
    /\ db = [k \in Ids |-> NoRow]
    /\ seqval = 1
    /\ tx = [c \in Clients |-> NoTx]
    /\ obj = [c \in Clients |-> NewBlock]
    /\ call = [c \in Clients |-> Idle]
    /\ abandoned = [c \in Clients |-> <<>>]
    /\ result = [c \in Clients |-> "none"]
    /\ nops = 0
    /\ nfaults = 0
    /\ dirty = [c \in Clients |-> {}]
    /\ mode \in {"solo", "duo", "admin", "ro", "agent", "nested"}
    /\ agent = NewAgent
    /\ conn = [c \in Clients |-> IF mode = "ro" /\ c = 2 THEN "new" ELSE "open"]
    /\ fn = (mode # "ro")

\* One client whose handle also times out and is closed: every operation.
NextSolo ==
    /\ mode = "solo"
    /\ \E c \in {1} :
        \/ \E p \in Props : AppendLocal(c, p)
        \/ \E u \in BOOLEAN : Save(c, u)
        \/ \E k \in Ids : k <= seqval /\ Load(c, k, BlockClass, TRUE)
        \/ \E ns \in NameSets : Push(c, ns)
        \/ \E ns \in NameSets : Pull(c, ns)
        \/ Progress(c)
        \/ Timeout(c)
        \/ AbandonedStep(c)
        \/ AbandonedCancel(c)
        \/ Close(c)
        \/ Drop(c)

\* Two clients on two connections whose calls overlap; a block is appended
\* to once it has an id.
NextDuo ==
    /\ mode = "duo"
    /\ \E c \in Clients :
        \/ \E p \in Props : obj[c].id # None /\ AppendLocal(c, p)
        \/ \E u \in BOOLEAN : Save(c, u)
        \/ \E k \in Ids : k <= seqval /\ Load(c, k, BlockClass, TRUE)
        \/ Push(c, Props)
        \/ Pull(c, Props)
        \/ Progress(c)

\* One client that also deletes rows and clears the table.
NextAdmin ==
    /\ mode = "admin"
    /\ \E c \in {1} :
        \/ \E p \in Props : AppendLocal(c, p)
        \/ \E u \in BOOLEAN : Save(c, u)
        \/ \E k \in Ids, cls \in Classes, strict \in BOOLEAN :
                k <= seqval /\ Load(c, k, cls, strict)
        \/ \E ns \in NameSets : Push(c, ns)
        \/ Pull(c, Props)
        \/ ClearStorage(c)
        \/ \E k \in Ids : DeleteIds(c, k)
        \/ Progress(c)

\* A read-only handle, and a read-write handle constructed at some point on
\* the same database.
NextRo ==
    /\ mode = "ro"
    /\ \/ \E c \in {1} :
            \/ \E p \in Props : AppendLocal(c, p)
            \/ \E u \in BOOLEAN : Save(c, u)
            \/ \E ns \in NameSets : Push(c, ns)
            \/ Progress(c)
       \/ Construct(2)

\* A client that saves and pushes its block, and a CBUpdate agent for the
\* block's record on a handle of its own.
NextAgent ==
    /\ mode = "agent"
    /\ \/ /\ \E c \in {1} :
                \/ \E p \in Props : AppendLocal(c, p)
                \/ \E u \in BOOLEAN : Save(c, u)
                \/ Push(c, Props)
                \/ Progress(c)
          /\ UNCHANGED agent
       \/ \E save \in BOOLEAN : AgentUpdate(save)
       \/ AgentProgress
       \/ AgentApply
       \/ AgentNew

\* One client whose block is also the nested block of a parent, and the
\* self-tests of both.
NextNested ==
    /\ mode = "nested"
    /\ \E c \in {1} :
        \/ \E p \in Props : AppendLocal(c, p)
        \/ \E u \in BOOLEAN : Save(c, u)
        \/ Push(c, Props)
        \/ TestBlock(c)
        \/ TestNested(c)
        \/ Progress(c)

Next ==
    \/ (NextSolo \/ NextDuo \/ NextAdmin \/ NextRo \/ NextNested)
            /\ UNCHANGED <<mode, agent>>
    \/ NextAgent /\ UNCHANGED mode

Spec == Init /\ [][Next]_vars


\* ------------------------------------------------------------------ claims
\* The patches a push in flight sends (the object is not touched while the
\* caller waits).
Patches(c) == get_patch_props_json(obj[c], TRUE)
Sent(c) == {p \in call[c].names : Len(Patches(c)[p]) > 0}
PushReturns(c) ==
    /\ call[c].op = "push"
    /\ call[c].st = "run"
    /\ call[c].stmts = <<>>
    /\ call'[c].op = "none"
PushFails(c) ==
    /\ call[c].op = "push"
    /\ call[c].st = "err"
    /\ call'[c].op = "none"

\* C1: a push appends to a property only after its check, in the same
\* transaction, read a stored length equal to last_patches of that property;
\* a check that reads another length raises, and the call has then appended
\* nothing.
C1_PushChecksLength ==
    \A c \in Clients : call[c].op = "push" =>
        \A p \in Props :
            /\ p \in call[c].app => call[c].seen[p] = obj[c].lp[p]
            /\ (call[c].seen[p] # -1 /\ call[c].seen[p] # obj[c].lp[p]) =>
                    call[c].st = "err" /\ call[c].app = {}
            /\ (call[c].st = "run" /\ call[c].stmts = <<>> /\ p \in Sent(c)) =>
                    call[c].seen[p] \in {-1, obj[c].lp[p]}

\* C1 witness: a push whose check passed has appended, and elsewhere a check
\* read a different length and raised.
C1_Witness ==
    \E c \in Clients : \E p \in Props :
        /\ call[c].op = "push"
        /\ p \in call[c].app
        /\ obj[c].lp[p] > 0

C1_WitnessRaise ==
    \E c \in Clients : \E p \in Props :
        /\ call[c].op = "push"
        /\ call[c].st = "err"
        /\ call[c].seen[p] # -1
        /\ call[c].seen[p] # obj[c].lp[p]

\* C2: a push is all or nothing.  The step that ends a push whose check
\* raised leaves every committed row as it was and discards what was
\* pending; each append statement of a push extends the stored sequence the
\* transaction sees by the patch; and the step that ends a successful push
\* on a stored row has executed the append of every property sent and
\* commits all of them at once.
VisibleNext(c, k) == IF k \in DOMAIN tx'[c] THEN tx'[c][k] ELSE db'[k]
PushAppends(c) ==
    /\ call[c].op = "push"
    /\ call[c].st = "run"
    /\ call[c].stmts # <<>>
    /\ Head(call[c].stmts).t = "append"
    /\ call'[c].op = "push"
    /\ call'[c].stmts = Tail(call[c].stmts)
C2_PushAllOrNothing ==
    [][\A c \in Clients :
        /\ PushFails(c) => db' = db /\ tx'[c] = NoTx
        /\ (PushAppends(c) /\ Visible(c, call[c].k).ex) =>
              LET s == Head(call[c].stmts) IN
              /\ s.v = Patches(c)[s.p]
              /\ VisibleNext(c, s.k).props[s.p] = Visible(c, s.k).props[s.p] \o s.v
              /\ \A q \in Props \ {s.p} :
                    VisibleNext(c, s.k).props[q] = Visible(c, s.k).props[q]
        /\ (PushReturns(c) /\ Visible(c, call[c].k).ex) =>
              /\ call[c].app = Sent(c)
              /\ db' = Committed(c)
      ]_vars

\* C2 witness: a push of both properties failed on one check while the
\* other property's check had passed, and the row is as it was.
C2_Witness ==
    \E c \in Clients :
        /\ call[c].op = "push"
        /\ call[c].st = "err"
        /\ Sent(c) = Props
        /\ call[c].seen["hist"] = obj[c].lp["hist"]
        /\ call[c].seen["log"] # obj[c].lp["log"]

\* C3: conflict detection.  Of two pushes to one property of one stored
\* row the second fails: a push on a handle that carries nothing of an
\* abandoned worker returns successfully only if the committed sequence
\* still has the length the pusher tracks, and the step that ends a failed
\* push changes neither the store nor the failing instance.
C3_SecondPushFails ==
    [][\A c \in Clients :
        /\ (PushReturns(c) /\ db[call[c].k].ex /\ dirty[c] = {}) =>
              \A p \in Sent(c) : Len(db[call[c].k].props[p]) = obj[c].lp[p]
        /\ PushFails(c) => db' = db /\ obj'[c] = obj[c]
      ]_vars

\* The patch sequences of an instance got by load of a row and then
\* pull_patch_props of that row.
FreshLoadPull(row, k) ==
    LET o == update_last_patches([from_json_binary(row.cls, row, k) EXCEPT !.loaded = TRUE], Props)
        pulled == [p \in Props |-> From(row.props[p], o.lp[p])]
    IN update_last_patches(set_patch_props(o, Props, pulled), Props).props

\* C4: push/pull consistency.  When a push of appended elements to a stored
\* row returns on a handle that carries nothing of an abandoned worker,
\* last_patches of each property sent is the length of the local sequence,
\* the stored sequence is the local sequence, and a fresh load followed by
\* a pull holds the pusher's sequence.
C4_PushPullConsistent ==
    [][\A c \in Clients :
        (PushReturns(c) /\ db'[call[c].k].ex /\ dirty[c] = {}) =>
            \A p \in Sent(c) :
                /\ obj'[c].lp[p] = Len(obj'[c].props[p])
                /\ db'[call[c].k].props[p] = obj'[c].props[p]
                /\ FreshLoadPull(db'[call[c].k], call[c].k)[p] = obj'[c].props[p]
      ]_vars

\* The caller's step that commits a call, and the one that ends a save or a
\* push without a commit (an error or a timeout).
Commits(c) ==
    /\ call[c].op # "none"
    /\ call[c].st = "run"
    /\ call[c].stmts = <<>>
    /\ ~ExecuteLost(c)
    /\ call'[c].op = "none"
FailsCall(c) ==
    /\ call[c].op \in {"save", "push"}
    /\ call'[c].op = "none"
    /\ ~Commits(c)
SaveOrPushWrites == {"append", "insert", "update"}

\* C5: no operation partially commits.  The step that ends a failed save or
\* push leaves the committed rows as they were, and no later commit on the
\* handle carries a row written by the worker of a save or push that failed.
C5_NoPartialCommit ==
    [][\A c \in Clients :
        /\ FailsCall(c) => db' = db
        /\ Commits(c) => \A d \in dirty[c] : d[2] \notin SaveOrPushWrites
      ]_vars

\* How a guarded operation fails.
Failures == {"timeout", "error", "violation"}

\* C6: after a guarded operation failed, the next call on the handle
\* re-establishes the connection: a call that submits its worker has
\* connected first, and a call on a handle left without a connection
\* connects.
C6_ReconnectsAfterFailure ==
    [][\A c \in Clients :
        (call[c].op = "none" /\ result[c] \in Failures) =>
            /\ call'[c].op # "none" => call'[c].reconn
            /\ (conn[c] = "none" /\ nops' = nops + 1) => conn'[c] # "none"
      ]_vars

C8_IdSetOnceSaved ==
    \A c \in Clients : call[c].op = "none" =>
        /\ obj[c].saved => obj[c].id # None
        /\ obj[c].id # None => (obj[c].saved \/ obj[c].loaded)

\* The steps of a non-destructive save of an object with an id: _pre_save
\* clears the id, the worker executes the insert, the caller returns.
Archives(c) == obj[c].id # None /\ obj'[c].id = None
Inserts(c) ==
    /\ call[c].op = "save"
    /\ call[c].st = "run"
    /\ call[c].stmts # <<>>
    /\ Head(call[c].stmts).t = "insert"
    /\ call'[c].op = "save"
    /\ call'[c].stmts = Tail(call[c].stmts)
SaveReturns(c) == call[c].op = "save" /\ Commits(c)
Last(s) == s[Len(s)]

\* What C9 says of every step but the id the insert gets: _pre_save appends
\* the id to id_history, the insert writes the object's json under the next
\* id of the sequence and no other row, the return sets the object's id to
\* it, and id_history of an instance only grows.
NonDestructiveSave(c) ==
    /\ Archives(c) => obj'[c].idh = Append(obj[c].idh, obj[c].id)
    /\ (Inserts(c) /\ call[c].arch # None) =>
          /\ Head(call[c].stmts).r = get_json(obj[c])
          /\ Last(obj[c].idh) = call[c].arch
          /\ VisibleNext(c, call'[c].rid) = get_json(obj[c])
          /\ \A j \in Ids \ {call'[c].rid} : VisibleNext(c, j) = Visible(c, j)
          /\ db' = db
    /\ (SaveReturns(c) /\ call[c].arch # None) => obj'[c].id = call[c].rid
    /\ call[c].op # "load" => IsPrefix(obj[c].idh, obj'[c].idh)

\* C9 as written: the new id differs from the archived id k.
C9_NewIdDiffers ==
    [][\A c \in Clients :
        /\ NonDestructiveSave(c)
        /\ (Inserts(c) /\ call[c].arch # None) => call'[c].rid # call[c].arch
      ]_vars

\* C9, amended: the new id differs from the archived id k whenever the
\* record with id k is still stored.
C9_NewIdDiffersWhileStored ==
    [][\A c \in Clients :
        /\ NonDestructiveSave(c)
        /\ (Inserts(c) /\ call[c].arch # None /\ Visible(c, call[c].arch).ex) =>
              call'[c].rid # call[c].arch
      ]_vars

\* C9 witness: a non-destructive save returned, the archived record and the
\* new one are both stored.
C9_Witness ==
    \E c \in Clients :
        /\ call[c].op = "none"
        /\ result[c] = "ok"
        /\ obj[c].id # None
        /\ obj[c].idh # <<>>
        /\ db[obj[c].id].ex
        /\ db[Last(obj[c].idh)].ex
        /\ db[obj[c].id].idh = obj[c].idh

\* C10: last_patches never exceeds the length of the local sequence.
C10_LastPatchesBounded ==
    \A c \in Clients : \A p \in Props : obj[c].lp[p] <= Len(obj[c].props[p])

\* C10 witness: after a pull that brought elements, with an unsynced
\* element appended since.
C10_Witness ==
    \E c \in Clients : \E p \in Props :
        /\ result[c] = "ok"
        /\ obj[c].loaded
        /\ 0 < obj[c].lp[p]
        /\ obj[c].lp[p] < Len(obj[c].props[p])


\* C11: a push through a read-only handle is rejected: the step that ends
\* it does not return successfully and leaves every stored record as it
\* was.
C11_ReadOnlyRejectsPush ==
    [][\A c \in Clients :
        (HandleMode(c) = "ro" /\ call[c].op = "push" /\ call'[c].op = "none") =>
            /\ ~PushReturns(c)
            /\ db' = db
      ]_vars

\* What CBStorage.save is given to store: the json and the binary.
Payload(r) ==
    [cls |-> r.cls, props |-> r.props, idh |-> r.idh, upd |-> r.upd, bin |-> r.bin]

\* The worker of a save executes its update statement.
Updates(c) ==
    /\ call[c].op = "save"
    /\ call[c].st = "run"
    /\ call[c].stmts # <<>>
    /\ Head(call[c].stmts).t = "update"
    /\ call'[c].op = "save"
    /\ call'[c].stmts = Tail(call[c].stmts)

\* C12: CBStorage.save returns the effective id.  Without an id the insert
\* gets an id no record has and writes no other record; with id k the
\* update writes no record but k and the call returns k; and when a save
\* returns on a handle that carries nothing of an abandoned worker, the
\* store holds a record with the returned id whose json and binary are
\* the arguments.
C12_SaveReturnsEffectiveId ==
    [][\A c \in Clients :
        /\ Inserts(c) =>
              /\ ~Visible(c, call'[c].rid).ex
              /\ ~db[call'[c].rid].ex
              /\ \A j \in Ids \ {call'[c].rid} : VisibleNext(c, j) = Visible(c, j)
        /\ Updates(c) =>
              /\ call'[c].rid = call[c].k
              /\ \A j \in Ids \ {call[c].k} : VisibleNext(c, j) = Visible(c, j)
        /\ (SaveReturns(c) /\ dirty[c] = {}) =>
              /\ obj'[c].id = call[c].rid
              /\ db'[call[c].rid].ex
              /\ Payload(db'[call[c].rid]) = Payload(get_json(obj[c]))
      ]_vars

\* The worker of a load or a pull executes its select.
Selects(c) ==
    /\ call[c].op \in {"load", "pull"}
    /\ call[c].st = "run"
    /\ call[c].stmts # <<>>
    /\ Head(call[c].stmts).t \in {"select", "pull"}
    /\ call'[c].op = call[c].op
    /\ call'[c].stmts = Tail(call[c].stmts)

\* C13: a load or a pull by an id that has no record raises the not-found
\* error and changes no record.  The select finds a row exactly when the
\* record exists, and the caller of a read whose select found none gets the
\* error, its commit (on a handle that carries nothing of an abandoned
\* worker) changing nothing.
C13_NotFoundRaises ==
    [][\A c \in Clients :
        /\ Selects(c) =>
              /\ call'[c].row.ex = Visible(c, call[c].k).ex
              /\ ~Visible(c, call[c].k).ex => tx'[c] = tx[c]
              /\ db' = db
        /\ (call[c].op \in {"load", "pull"} /\ Commits(c) /\ ~call[c].row.ex) =>
              /\ result'[c] = "notfound"
              /\ obj'[c] = obj[c]
              /\ dirty[c] = {} => db' = db
      ]_vars

\* C13 witness: a pull by the id of a record that was deleted has raised.
C13_Witness ==
    \E c \in Clients :
        /\ result[c] = "notfound"
        /\ call[c].op = "none"
        /\ obj[c].id # None
        /\ ~db[obj[c].id].ex

\* C14: for an existing record the select of a pull returns, for every
\* requested name, the stored elements from position last_patches[name] on,
\* in stored order, and writes nothing.
C14_PullReturnsSuffix ==
    [][\A c \in Clients :
        (Selects(c) /\ call[c].op = "pull" /\ Visible(c, call[c].k).ex) =>
            /\ Head(call[c].stmts).lps = obj[c].lp
            /\ \A p \in call[c].names :
                  LET stored == Visible(c, call[c].k).props[p]
                      got == call'[c].row.props[p]
                      n == obj[c].lp[p]
                  IN /\ Len(got) = IF n <= Len(stored) THEN Len(stored) - n ELSE 0
                     /\ \A i \in 1..Len(got) : got[i] = stored[n + i]
            /\ tx' = tx
            /\ db' = db
      ]_vars

\* C14 witness: a pull has selected a non-empty proper suffix.
C14_Witness ==
    \E c \in Clients : \E p \in Props :
        /\ call[c].op = "pull"
        /\ call[c].stmts = <<>>
        /\ p \in call[c].names
        /\ call[c].row.ex
        /\ call[c].row.props[p] # <<>>
        /\ obj[c].lp[p] > 0
        /\ Len(call[c].row.props[p]) + obj[c].lp[p] = Len(Visible(c, call[c].k).props[p])

\* The worker of a load executes the update of read_date.
Stamps(c) ==
    /\ call[c].op = "load"
    /\ call[c].st = "run"
    /\ call[c].stmts # <<>>
    /\ Head(call[c].stmts).t = "stamp"
    /\ call'[c].op = "load"
    /\ call'[c].stmts = Tail(call[c].stmts)

\* C15: record timestamps.  The load of a record sets its read_date, and
\* the update of a save with an id and every append of a push set its
\* update_date.
C15_Timestamps ==
    [][\A c \in Clients :
        (call[c].k \in Ids /\ Visible(c, call[c].k).ex) =>
            /\ Stamps(c) => VisibleNext(c, call[c].k).rd > Visible(c, call[c].k).rd
            /\ Updates(c) => VisibleNext(c, call[c].k).ud > Visible(c, call[c].k).ud
            /\ PushAppends(c) => VisibleNext(c, call[c].k).ud > Visible(c, call[c].k).ud
      ]_vars

\* A load returns from the storage with a record of another class.
LoadsOtherClass(c) ==
    /\ call[c].op = "load"
    /\ Commits(c)
    /\ call[c].row.ex
    /\ call[c].row.cls # call[c].req.cls

\* C16: a load whose class is not the stored __classname__ raises under
\* strict=True and leaves the caller's object alone; under strict=False it
\* returns an object of the loading class with the record's id and contents.
\* In both cases the json and the binary of every record stay as they were.
C16_ClassMismatch ==
    [][\A c \in Clients :
        LoadsOtherClass(c) =>
            /\ call[c].req.strict =>
                  /\ result'[c] = "mismatch"
                  /\ obj'[c] = obj[c]
            /\ ~call[c].req.strict =>
                  /\ result'[c] = "ok"
                  /\ obj'[c].cls = call[c].req.cls
                  /\ obj'[c].id = call[c].k
                  /\ obj'[c].props = call[c].row.props
            /\ \A k \in Ids :
                  /\ db'[k].ex = db[k].ex
                  /\ Payload(db'[k]) = Payload(db[k]) ]_vars

\* A strict load of a class-A record as B has raised, and a lenient one has
\* returned a B object.
C16_Witness ==
    \E c \in Clients :
        /\ result[c] = "mismatch"
        /\ call[c].op = "none"
        /\ obj[c].id # None /\ obj[c].cls # db[obj[c].id].cls
        /\ \E k \in Ids : db[k].ex /\ db[k].rd > 0
C16_WitnessLenient ==
    \E c \in Clients :
        /\ result[c] = "ok"
        /\ obj[c].cls # BlockClass
        /\ obj[c].loaded
        /\ obj[c].id # None /\ db[obj[c].id].ex /\ db[obj[c].id].cls = BlockClass
\* The agent's update() decides what to do with the update it computed.
AgentDecides == agent.pc = "ready" /\ agent'.pc # "ready"
\* A step of the agent's lazy load: its worker's, or the commit.
AgentLoads ==
    /\ call[AgentHandle].op = "uload"
    /\ call'[AgentHandle] # call[AgentHandle]

\* C17: update() calls the storage's save only for a non-empty update with
\* save set; an empty update ends with "no update" and the json as it was
\* loaded; the lazy load of a first use changes no record's json or binary.
C17_UpdateSavesOnlyWhenAsked ==
    [][/\ AgentDecides =>
            /\ make_update(agent.json) = 0 =>
                  /\ result'[AgentHandle] = "noupdate"
                  /\ agent'.json = agent.json
                  /\ call'[AgentHandle].op = "none"
            /\ ~agent.save => call'[AgentHandle].op = "none"
            /\ (make_update(agent.json) # 0 /\ agent.save) =>
                  /\ call'[AgentHandle].op = "usave"
                  /\ Head(call'[AgentHandle].stmts).r = agent'.json
            /\ db' = db /\ tx' = tx
       /\ AgentLoads =>
            \A k \in Ids :
                /\ Payload(VisibleNext(AgentHandle, k)) = Payload(Visible(AgentHandle, k))
                /\ Payload(db'[k]) = Payload(db[k])
                /\ db'[k].ex = db[k].ex ]_vars

\* update(save=False) has set the reserved key in memory and the record
\* does not have it.
C17_Witness ==
    /\ agent.pc = "idle"
    /\ result[AgentHandle] = "ok"
    /\ ~agent.save
    /\ agent.json.upd # 0
    /\ db[AgentBlock].ex /\ db[AgentBlock].upd = 0
\* update() found nothing to do.
C17_WitnessEmpty ==
    /\ agent.pc = "idle"
    /\ result[AgentHandle] = "noupdate"
    /\ agent.json.ex /\ agent.json.upd = 0

\* C17 as stated: an update() whose computed update is empty writes nothing
\* to the store and changes nothing of the in-memory json.
C17_EmptyUpdateWritesNothing ==
    [][(AgentLoads /\ Commits(AgentHandle) /\ call[AgentHandle].row.ex
            /\ make_update(Json(call[AgentHandle].row)) = 0) =>
         (db' = db /\ agent'.json = agent.json)]_vars
\* The json without its reserved key, and the binary.
OwnKeys(j) == [j EXCEPT !.upd = 0]

\* C18: while a CBUpdate object holds a json, its update() calls change
\* nothing of it but the value under the reserved key, and never the binary.
C18_OnlyReservedKeyChanges ==
    [][(agent.json.ex /\ agent'.json.ex) =>
            OwnKeys(agent'.json) = OwnKeys(agent.json)]_vars

\* An agent has loaded a record that carried the reserved key and has put
\* another value under it.
C18_Witness ==
    /\ agent.pc = "idle"
    /\ agent.json.ex
    /\ agent.json.upd > 1
    /\ db[AgentBlock].ex
    /\ db[AgentBlock].upd # 0
    /\ db[AgentBlock].upd # agent.json.upd

\* C18 as stated: no key the loaded json already has changes its value, the
\* reserved key of an augmented record included.
C18_NoExistingKeyChanges ==
    [][(agent.json.ex /\ agent'.json.ex) =>
            /\ OwnKeys(agent'.json) = OwnKeys(agent.json)
            /\ agent.json.upd # 0 => agent'.json.upd = agent.json.upd]_vars
\* A test_computational_block ends: at once, or when its load returns or fails.
TestEnds(c) ==
    \/ /\ call[c].op = "none" /\ call'[c].op = "none"
       /\ obj'[c] = obj[c]
       /\ result'[c] # result[c]
       /\ result'[c] \in {"true", "false", "mismatch", "typeerror"}
    \/ call[c].op = "test" /\ call'[c].op = "none"

\* C19: every test_computational_block returns True: the object decoded from
\* the encoding encodes to the same json and binary.
C19_RoundTrip ==
    [][\A c \in Clients : TestEnds(c) => result'[c] = "true"]_vars

\* The part of C19 that holds: the test of a block without nested blocks.
C19_RoundTripPlain ==
    \A c \in Clients :
        LET o == obj[c] IN
        SameEncoding(from_json_binary(o.cls, get_json(o), o.id), o)
\* A call ends because its worker, or its commit, found the server's end gone.
FailsLost(c) ==
    /\ call[c].op # "none"
    /\ call'[c].op = "none"
    /\ ExecuteLost(c)
    /\ call[c].err = "lost" \/ CommitLost(c)
\* A call begins on a handle whose connection is marked closed (a push or
\* pull of a block without an id raises before it uses the handle).
BeginsClosed(c) ==
    /\ call[c].op = "none"
    /\ conn[c] = "closed"
    /\ nops' = nops + 1
    /\ ~(result'[c] = "typeerror" /\ call'[c] = call[c] /\ conn'[c] = conn[c])

\* C20: a statement or commit on a connection whose server end is gone
\* executes nothing and the call fails with that error, leaving the
\* connection marked closed and the store as it was; the next call on the
\* handle reconnects before it submits (or fails on the reconnect without
\* executing), so no statement runs on a connection marked closed.
C20_LossFailsThenReopens ==
    [][\A c \in Clients :
        /\ (ExecuteLost(c) /\ call[c].op # "none" /\ call'[c] # call[c]) =>
              /\ tx'[c] = NoTx
              /\ db' = db
              /\ call'[c].op = "none" \/ call'[c].st = "err"
        /\ FailsLost(c) =>
              /\ result'[c] = "lost"
              /\ conn'[c] = "closed"
        /\ BeginsClosed(c) =>
              \/ conn'[c] = "open" /\ call'[c].op # "none" /\ call'[c].reconn
              \/ /\ conn'[c] = "none" /\ call'[c].op = "none"
                 /\ result'[c] \in {"timeout", "error"}
        /\ call'[c].op # "none" => conn'[c] # "closed" ]_vars

\* A call has failed on a lost connection, which is now marked closed, and
\* the store has the record an earlier call saved.
C20_Witness ==
    \E c \in Clients :
        /\ result[c] = "lost"
        /\ conn[c] = "closed"
        /\ call[c].op = "none"
        /\ obj[c].id # None /\ db[obj[c].id].ex

\* C20 as stated: a call that finds the connection closed, marked so or
\* not, does not return normally.
C20_ClosedCallFails ==
    [][\A c \in Clients :
        (call[c].op # "none" /\ (call[c].reconn \/ ExecuteLost(c))
            /\ call'[c].op = "none") => result'[c] \notin {"ok", "notfound"}]_vars
\* C21: between its calls, a block with an id whose record is stored has the
\* first last_patches[name] elements of every local sequence equal to the
\* first last_patches[name] elements of the stored one.
C21_SyncedPrefix ==
    \A c \in Clients :
        (call[c].op = "none" /\ obj[c].id # None /\ db[obj[c].id].ex) =>
            \A p \in Props :
                LET n == obj[c].lp[p]
                    stored == db[obj[c].id].props[p]
                IN /\ n <= Len(stored)
                   /\ SubSeq(obj[c].props[p], 1, n) = SubSeq(stored, 1, n)
\* C22: the stored sequences of a record only grow: what a record holds
\* before a step is a prefix of what it holds after it (stated for the
\* steps of runs without a timeout, a close or a lost connection).
C22_StoredAppendOnly ==
    [][nfaults = 0 =>
        \A k \in Ids : \A p \in Props :
            (db[k].ex /\ db'[k].ex) => IsPrefix(db[k].props[p], db'[k].props[p])]_vars
\* The worker of the call in flight on handle c has statements to execute.
WorkerRuns(c) ==
    /\ call[c].op # "none"
    /\ call[c].st = "run"
    /\ call[c].stmts # <<>>

\* C23: at most one worker executes on a handle's connection: no worker a
\* timed-out call abandoned has statements left while the worker of a later
\* call on the handle has.
C23_OneWorkerPerHandle ==
    \A c \in Clients : ~(abandoned[c] # <<>> /\ WorkerRuns(c))
=============================================================================
